---- MODULE Spec2Model ----
(***************************************************************************)
(* Model of the weather-app server (src/server/server.py): the main        *)
(* thread (Start / End), the Acceptor thread (OpenServer), the Processor   *)
(* thread (ProcessRequestQueue / ProcessRequest) and one Listener thread   *)
(* per accepted connection (MessagingHandler.ListenForRequests).           *)
(*                                                                         *)
(* A payload is the sequence of its space-separated tokens, so that        *)
(* b'LOGIN alice secret' is <<"LOGIN", "alice", "secret">> and b'' is      *)
(* <<"">>.  A session is named by the order in which it was accepted       *)
(* (1, 2, ...); None is 0.  A registry slot holds the session whose        *)
(* (thread, handler) pair the code stores there.                           *)
(***************************************************************************)
EXTENDS Integers, Sequences, FiniteSets, TLC

\* ---------------------------------------------------------------- bounds
maxClients == 2
MaxSessions == 2
MaxQueue == 2
MaxTokens == 3
MaxFrames == 2

None == 0
Slots == 0 .. (maxClients - 1)
Sessions == 1 .. MaxSessions

\* ------------------------------------------------------------- payloads
DISCONNECT == <<"DISCONNECT">>
CONFIRM_DISCONNECTION == <<"CONFIRM", "DISCONNECTION">>
NoMessage == <<>>

\* frames a client may send in the concurrent model: the two tokens of the
\* disconnection protocol and a request that is answered (INVALID).
\* CONFIRM DISCONNECTION, when queued, is a two-token request like any other.
Requests ==
    { DISCONNECT,
      CONFIRM_DISCONNECTION,
      <<"LOGIN">> }

\* how a connection can end, seen from the server's recv
Failures == {"eof", "trunc", "reset", "error"}

\* the credential store: username -> password
InitialUsers == { <<"alice", <<"secret">>>> }

\* words of the requests handed to ProcessRequest ("" between two spaces)
Words == { "", "LOGIN", "REGISTER", "WEATHER", "ALL", "alice", "bob",
           "secret", "pw" }

\* payloads a client frames, the empty one among them
FramePayloads ==
    { <<"">>, DISCONNECT, CONFIRM_DISCONNECTION, <<"LOGIN">>,
      <<"LOGIN", "alice", "secret">> }

VARIABLES
    mainPc,                    \* position of the thread running Start / End
    endIdx,                    \* End: index of the registry iteration
    endConn,                   \* End: the connection tuple it holds
    serverDisconnectionEvent,  \* threading.Event
    serverSocket,              \* "created" | "listening" | "closed"
    clients,                   \* the registry: slot -> session or None
    clientListLock,            \* "free" | "acceptor" | "processor"
    universalRequestQueue,     \* FIFO of [id, request, sid]
    accPc, accIdx, accConn,    \* Acceptor thread
    procPc, procCur, procReply, procTarget,   \* Processor thread
    lstate,                    \* listener thread of each session
    handlerId,                 \* MessagingHandler.id of each session
    conn,                      \* "open", or how recv saw the connection end
    nConn, nAcc,               \* connections made / accepted
    users,                     \* credential store
    sentFrames,                \* payloads a client has framed for session 1
    wire,                      \* their bytes, sent and not yet received
    rx,                        \* session 1's listener inside one loop turn
    adminPc,                   \* the thread calling Enter / ExitEditMode
    weatherDatabaseLock        \* "free" | "admin" | "processor"

vars == << mainPc, endIdx, endConn, serverDisconnectionEvent, serverSocket,
           clients, clientListLock, universalRequestQueue,
           accPc, accIdx, accConn, procPc, procCur, procReply, procTarget,
           lstate, handlerId, conn, nConn, nAcc, users, sentFrames, wire,
           rx, adminPc, weatherDatabaseLock >>

mainVars == << mainPc, endIdx, endConn >>
accVars == << accPc, accIdx, accConn >>
procVars == << procPc, procCur, procReply, procTarget >>
frameVars == << sentFrames, wire, rx >>
editVars == << adminPc, weatherDatabaseLock >>
netVars == << conn, nConn, frameVars, editVars >>

NoEntry == [id |-> 0, request |-> NoMessage, sid |-> None]

Alive(s) == s # None /\ lstate[s] \in {"listening", "exiting"}


\* ------------------------------------------------------------ the framing
\* On the wire a byte string is a sequence of units: a decimal digit or a
\* space of a header, a word of a payload, or the space between two words
\* (a word counts for one byte).
HEADER_LENGTH == 64
SP == " "
Digits == << "0", "1", "2", "3", "4", "5", "6", "7", "8", "9" >>

\* str(length).encode(FORMAT)
RECURSIVE Decimal(_)
Decimal(n) ==
    IF n < 10 THEN << Digits[n + 1] >>
    ELSE Decimal(n \div 10) \o << Digits[(n % 10) + 1] >>

\* the bytes of a payload, and the payload a byte string is
RECURSIVE Bytes(_)
Bytes(m) ==
    IF m = <<>> THEN <<>>
    ELSE LET h == IF Head(m) = "" THEN <<>> ELSE << Head(m) >>
         IN  IF Len(m) = 1 THEN h ELSE h \o << SP >> \o Bytes(Tail(m))

RECURSIVE Tokens(_)
Tokens(b) ==
    IF b = <<>> THEN << "" >>
    ELSE IF Head(b) = SP THEN << "" >> \o Tokens(Tail(b))
    ELSE IF Len(b) = 1 THEN << Head(b) >>
    ELSE IF b[2] = SP THEN << Head(b) >> \o Tokens(Tail(Tail(b)))
    ELSE << Head(b) >> \o Tokens(Tail(b))

\* MessagingHandler.SendMessage: header = str(length) padded with spaces to
\* HEADER_LENGTH, then the message
Header(length) ==
    LET d == Decimal(length)
    IN  d \o [i \in 1 .. (HEADER_LENGTH - Len(d)) |-> SP]

Frame(m) == Header(Len(Bytes(m))) \o Bytes(m)

RECURSIVE Stream(_)
Stream(frames) ==
    IF frames = <<>> THEN <<>>
    ELSE Frame(Head(frames)) \o Stream(Tail(frames))

\* int(message_length): surrounding whitespace is ignored, what is left must
\* be decimal digits; ValueError is -1
RECURSIVE Strip(_)
Strip(b) ==
    IF b = <<>> THEN b
    ELSE IF Head(b) = SP THEN Strip(Tail(b))
    ELSE IF b[Len(b)] = SP THEN Strip(SubSeq(b, 1, Len(b) - 1))
    ELSE b

IsDigit(c) == \E k \in 1 .. 10 : Digits[k] = c

RECURSIVE Value(_)
Value(d) ==
    IF d = <<>> THEN 0
    ELSE 10 * Value(SubSeq(d, 1, Len(d) - 1))
         + (CHOOSE k \in 0 .. 9 : Digits[k + 1] = d[Len(d)])

ParseInt(b) ==
    LET d == Strip(b)
    IN  IF d # <<>> /\ \A k \in 1 .. Len(d) : IsDigit(d[k])
        THEN Value(d)
        ELSE -1

\* the listener blocked in recv at the top of its loop: message = None
AtRecv == [pc |-> "recv", length |-> 0, chunks |-> <<>>]

\* ------------------------------------------------ ServerProgram.SplitOnce
\* request.split(' ', 1): two parts when the payload has a space, else the
\* assertion fails and (None, None) is returned (errorOnNoTrail = True).
SplitOnce(request) ==
    IF Len(request) >= 2
    THEN [ok |-> TRUE, head |-> Head(request), rest |-> Tail(request)]
    ELSE [ok |-> FALSE, head |-> "", rest |-> <<"">>]

\* Python truthiness of the two results: None and b'' are false
Truthy(part) == part # <<"">>

\* ------------------------------------------- UserDataHandler (collaborator)
Verify(db, username, password) ==
    IF \A u \in db : u[1] # username THEN "NO_USERNAME"
    ELSE IF <<username, password>> \in db THEN "VALID"
    ELSE "WRONG_PASSWORD"

Register(db, username, password) ==
    IF \E u \in db : u[1] = username THEN "DUPLICATE" ELSE "VALID"

Crash == [kind |-> "crash", reply |-> ""]
Reply(text) == [kind |-> "reply", reply |-> text]

\* the (username, password) pair LOGIN / REGISTER hand to the store:
\* SplitOnce(param); a password keeps its spaces, so it is a token sequence.
\* (None, None) is handed on as an empty name and an empty password.
Credentials(param) ==
    LET up == SplitOnce(param)
    IN  <<up.head, up.rest>>

\* ------------------------------------------- ServerProgram.ProcessRequest
\* Everything but the DISCONNECT branch (which joins a thread and is an
\* action of the Processor).  self.clients[id] is a tuple, so both
\* self.clients[id].SetLoggedIn(...) and self.clients[id].logged_in raise
\* AttributeError, which nothing catches.
ProcessRequest(db, request) ==
    LET cp == SplitOnce(request)
    IN  IF cp.ok /\ Truthy(<<cp.head>>) /\ Truthy(cp.rest)
        THEN IF cp.head = "LOGIN"
             THEN LET c == Credentials(cp.rest)
                      loginstatus == Verify(db, c[1], c[2])
                  IN  IF loginstatus = "VALID" THEN Crash
                      ELSE IF loginstatus = "NO_USERNAME"
                           THEN Reply("FAILED USERNAME NOT FOUND")
                      ELSE Reply("FAILED WRONG PASSWORD")
             ELSE IF cp.head = "REGISTER"
             THEN LET c == Credentials(cp.rest)
                  IN  IF Register(db, c[1], c[2]) = "VALID"
                      THEN Reply("SUCCEEDED")
                      ELSE Reply("FAILED USERNAME ALREADY EXISTS")
             ELSE Crash
        ELSE Reply("INVALID")

\* ProcessRequest reaches self.userDataHandler.Verify or .Register: cmd and
\* param are truthy and cmd is LOGIN or REGISTER
CallsStore(request) ==
    LET cp == SplitOnce(request)
    IN  /\ cp.ok /\ Truthy(<<cp.head>>) /\ Truthy(cp.rest)
        /\ cp.head \in {"LOGIN", "REGISTER"}

\* the store after ProcessRequest: REGISTER of a new name adds it
UsersAfter(db, request) ==
    LET cp == SplitOnce(request)
        c == Credentials(cp.rest)
    IN  IF cp.ok /\ Truthy(<<cp.head>>) /\ Truthy(cp.rest)
           /\ cp.head = "REGISTER" /\ Register(db, c[1], c[2]) = "VALID"
        THEN db \cup {c}
        ELSE db

\* ------------------------------------------------------------------- Init
\* ServerProgram.__init__
Init ==
    /\ mainPc = "constructed"
    /\ endIdx = 0
    /\ endConn = None
    /\ serverDisconnectionEvent = FALSE
    /\ serverSocket = "created"
    /\ clients = [i \in Slots |-> None]
    /\ clientListLock = "free"
    /\ universalRequestQueue = <<>>
    /\ accPc = "unstarted" /\ accIdx = 0 /\ accConn = None
    /\ procPc = "unstarted" /\ procCur = NoEntry /\ procReply = ""
    /\ procTarget = None
    /\ lstate = [s \in Sessions |-> "unborn"]
    /\ handlerId = [s \in Sessions |-> 0]
    /\ conn = [s \in Sessions |-> "open"]
    /\ nConn = 0 /\ nAcc = 0
    /\ users = InitialUsers
    /\ wire = <<>>
    /\ sentFrames = <<>>
    /\ rx = AtRecv
    /\ adminPc = "idle"
    /\ weatherDatabaseLock = "free"

\* socket.send on the session's socket: a broken connection may still take
\* the bytes or raise; an open one takes them
SendOutcomes(s) == IF conn[s] = "open" THEN {TRUE} ELSE {TRUE, FALSE}

\* --------------------------------------------------- ServerProgram.Start
Start ==
    /\ mainPc = "constructed"
    /\ mainPc' = "running"
    /\ accPc' = "bind"
    /\ procPc' = "poll"
    /\ UNCHANGED << endIdx, endConn, serverDisconnectionEvent, serverSocket,
                    clients, clientListLock, universalRequestQueue,
                    accIdx, accConn, procCur, procReply, procTarget,
                    lstate, handlerId, netVars, nAcc, users >>

\* ----------------------------------------------------- ServerProgram.End
\* self.serverDisconnectionEvent.set()
End_SetEvent ==
    /\ mainPc = "running"
    /\ serverDisconnectionEvent' = TRUE
    /\ mainPc' = "end_close"
    /\ UNCHANGED << endIdx, endConn, serverSocket, clients, clientListLock,
                    universalRequestQueue, accVars, procVars, lstate,
                    handlerId, netVars, nAcc, users >>

\* self.serverSocket.close()
End_Close ==
    /\ mainPc = "end_close"
    /\ serverSocket' = "closed"
    /\ mainPc' = "end_scan"
    /\ endIdx' = 0
    /\ UNCHANGED << endConn, serverDisconnectionEvent, clients,
                    clientListLock, universalRequestQueue, accVars, procVars,
                    lstate, handlerId, netVars, nAcc, users >>

\* for connection in self.clients: if connection != (None, None)
End_Scan ==
    /\ mainPc = "end_scan"
    /\ IF endIdx = maxClients
       THEN /\ mainPc' = "end_joinAcc"
            /\ UNCHANGED << endIdx, endConn >>
       ELSE IF clients[endIdx] = None
       THEN /\ endIdx' = endIdx + 1
            /\ UNCHANGED << mainPc, endConn >>
       ELSE /\ endConn' = clients[endIdx]
            /\ mainPc' = "end_send_hdr"
            /\ UNCHANGED endIdx
    /\ UNCHANGED << serverDisconnectionEvent, serverSocket, clients,
                    clientListLock, universalRequestQueue, accVars, procVars,
                    lstate, handlerId, netVars, nAcc, users >>

\* connection[1].SendMessage(b'DISCONNECT'): self.socket.send(header)
End_SendHeader ==
    /\ mainPc = "end_send_hdr"
    /\ \E ok \in SendOutcomes(endConn) :
          mainPc' = IF ok THEN "end_send_pay" ELSE "end_join"
    /\ UNCHANGED << endIdx, endConn, serverDisconnectionEvent, serverSocket,
                    clients, clientListLock, universalRequestQueue, accVars,
                    procVars, lstate, handlerId, netVars, nAcc,
                    users >>

\* connection[1].SendMessage(b'DISCONNECT'): self.socket.send(message);
\* SendMessage returns True or False and End ignores which
End_SendPayload ==
    /\ mainPc = "end_send_pay"
    /\ mainPc' = "end_join"
    /\ UNCHANGED << endIdx, endConn, serverDisconnectionEvent, serverSocket,
                    clients, clientListLock, universalRequestQueue, accVars,
                    procVars, lstate, handlerId, netVars, nAcc, users >>

\* connection[0].join()
End_Join ==
    /\ mainPc = "end_join"
    /\ lstate[endConn] = "done"
    /\ endIdx' = endIdx + 1
    /\ endConn' = None
    /\ mainPc' = "end_scan"
    /\ UNCHANGED << serverDisconnectionEvent, serverSocket, clients,
                    clientListLock, universalRequestQueue, accVars, procVars,
                    lstate, handlerId, netVars, nAcc, users >>

\* self.connectionThread.join()
End_JoinAcceptor ==
    /\ mainPc = "end_joinAcc"
    /\ accPc = "done"
    /\ mainPc' = "end_joinProc"
    /\ UNCHANGED << endIdx, endConn, serverDisconnectionEvent, serverSocket,
                    clients, clientListLock, universalRequestQueue, accVars,
                    procVars, lstate, handlerId, netVars, nAcc,
                    users >>

\* self.processthread.join(); End returns
End_JoinProcessor ==
    /\ mainPc = "end_joinProc"
    /\ procPc \in {"done", "crashed"}
    /\ mainPc' = "returned"
    /\ UNCHANGED << endIdx, endConn, serverDisconnectionEvent, serverSocket,
                    clients, clientListLock, universalRequestQueue, accVars,
                    procVars, lstate, handlerId, netVars, nAcc,
                    users >>


\* ------------------------------------------------ ServerProgram.OpenServer
FreeSlots == { i \in Slots : clients[i] = None }

\* self.serverSocket.bind(...); self.serverSocket.listen(backlog)
\* (on a socket End has already closed, bind raises and the thread ends)
Acc_Bind ==
    /\ accPc = "bind"
    /\ IF serverSocket = "closed"
       THEN accPc' = "done" /\ UNCHANGED serverSocket
       ELSE accPc' = "loop" /\ serverSocket' = "listening"
    /\ UNCHANGED << mainVars, serverDisconnectionEvent, clients,
                    clientListLock, universalRequestQueue, accIdx, accConn,
                    procVars, lstate, handlerId, netVars, nAcc,
                    users >>

\* while self.clients.count((None, None)) > 0
Acc_Loop ==
    /\ accPc = "loop"
    /\ accPc' = IF FreeSlots = {} THEN "done" ELSE "accept"
    /\ UNCHANGED << mainVars, serverDisconnectionEvent, serverSocket, clients,
                    clientListLock, universalRequestQueue, accIdx, accConn,
                    procVars, lstate, handlerId, netVars, nAcc,
                    users >>

\* clientSocket, address = self.serverSocket.accept()  /  except: break
Acc_Accept ==
    /\ accPc = "accept"
    /\ IF serverSocket = "closed"
       THEN /\ accPc' = "done"
            /\ UNCHANGED << accConn, nAcc >>
       ELSE /\ nConn > nAcc
            /\ nAcc' = nAcc + 1
            /\ accConn' = nAcc + 1
            /\ accPc' = "lock"
    /\ UNCHANGED << mainVars, serverDisconnectionEvent, serverSocket, clients,
                    clientListLock, universalRequestQueue, accIdx, procVars,
                    lstate, handlerId, netVars, users >>

\* with self.clientListLock:
Acc_Acquire ==
    /\ accPc = "lock"
    /\ clientListLock = "free"
    /\ clientListLock' = "acceptor"
    /\ accIdx' = 0
    /\ accPc' = "scan"
    /\ UNCHANGED << mainVars, serverDisconnectionEvent, serverSocket, clients,
                    universalRequestQueue, accConn, procVars, lstate,
                    handlerId, netVars, nAcc, users >>

\* for i in range(len(self.clients)): if self.clients[i] == (None, None):
\*     handler = MessagingHandler(i, ...); thread = handler.ListenForRequests()
\* The loop running out without a free slot leaves the lock and drops the
\* accepted socket.
Acc_Scan ==
    /\ accPc = "scan"
    /\ IF accIdx = maxClients
       THEN /\ clientListLock' = "free"
            /\ accConn' = None
            /\ accPc' = "loop"
            /\ UNCHANGED << accIdx, lstate, handlerId >>
       ELSE IF clients[accIdx] = None
       THEN /\ handlerId' = [handlerId EXCEPT ![accConn] = accIdx]
            /\ lstate' = [lstate EXCEPT ![accConn] = "listening"]
            /\ accPc' = "insert"
            /\ UNCHANGED << clientListLock, accIdx, accConn >>
       ELSE /\ accIdx' = accIdx + 1
            /\ UNCHANGED << clientListLock, accPc, accConn, lstate,
                            handlerId >>
    /\ UNCHANGED << mainVars, serverDisconnectionEvent, serverSocket, clients,
                    universalRequestQueue, procVars, netVars, nAcc,
                    users >>

\* self.clients[i] = (thread, handler); break; the with block ends
Acc_Insert ==
    /\ accPc = "insert"
    /\ clients' = [clients EXCEPT ![accIdx] = accConn]
    /\ clientListLock' = "free"
    /\ accConn' = None
    /\ accPc' = "loop"
    /\ UNCHANGED << mainVars, serverDisconnectionEvent, serverSocket,
                    universalRequestQueue, accIdx, procVars, lstate,
                    handlerId, netVars, nAcc, users >>

\* ---------------------------------- MessagingHandler.ListenForRequests
Entry(s, request) == [id |-> handlerId[s], request |-> request, sid |-> s]

\* One turn of the while True loop in which recv delivers the frame m the
\* client has sent, and the classification of the message:
\*   - CONFIRM DISCONNECTION with the event set ends the thread;
\*   - DISCONNECT is queued and ends it;
\*   - an empty payload is falsy and is skipped;
\*   - anything else is queued.
Classify(m) ==
    IF m = <<"">> THEN "skip"
    ELSE IF serverDisconnectionEvent /\ m = CONFIRM_DISCONNECTION
         THEN "confirmed"
    ELSE IF m = DISCONNECT THEN "disconnect"
    ELSE "request"

\* if message: ... reqQueue.put((self.id, message)) / break
Handle(s, m) ==
    /\ universalRequestQueue' =
          IF Classify(m) \in {"disconnect", "request"}
          THEN Append(universalRequestQueue, Entry(s, m))
          ELSE universalRequestQueue
    /\ lstate' = IF Classify(m) \in {"confirmed", "disconnect"}
                 THEN [lstate EXCEPT ![s] = "exiting"]
                 ELSE lstate

L_Recv(s, m) ==
    /\ lstate[s] = "listening"
    /\ conn[s] = "open"
    /\ rx = AtRecv
    /\ Classify(m) \in {"disconnect", "request"}
          => Len(universalRequestQueue) < MaxQueue
    /\ Handle(s, m)
    /\ UNCHANGED << mainVars, serverDisconnectionEvent, serverSocket, clients,
                    clientListLock, accVars, procVars, handlerId, netVars,
                    nAcc, users >>

\* One turn of the loop in which recv sees the connection end:
\*   - "reset": ConnectionResetError, DISCONNECT is queued, the thread ends;
\*   - "eof": recv returns b'' (peer closed), no message, the loop goes round;
\*   - "trunc": peer closed inside a frame, the inner while never gets its
\*     bytes;
\*   - "error": any other exception, logged, the loop goes round.
\* In the last three cases every later turn fails the same way and changes
\* nothing: the thread stays alive, and only the first turn is a step here.
L_Fail(s, how) ==
    /\ lstate[s] = "listening"
    /\ conn[s] = "open"
    /\ conn' = [conn EXCEPT ![s] = how]
    /\ IF how = "reset"
       THEN /\ universalRequestQueue' =
                  Append(universalRequestQueue, Entry(s, DISCONNECT))
            /\ lstate' = [lstate EXCEPT ![s] = "exiting"]
       ELSE UNCHANGED << universalRequestQueue, lstate >>
    /\ UNCHANGED << mainVars, serverDisconnectionEvent, serverSocket, clients,
                    clientListLock, accVars, procVars, handlerId, nConn,
                    nAcc, users, frameVars, editVars >>

\* the thread function returns
L_Exit(s) ==
    /\ lstate[s] = "exiting"
    /\ lstate' = [lstate EXCEPT ![s] = "done"]
    /\ UNCHANGED << mainVars, serverDisconnectionEvent, serverSocket, clients,
                    clientListLock, universalRequestQueue, accVars, procVars,
                    handlerId, netVars, nAcc, users >>


\* One turn of session 1's loop, recv by recv, on the bytes of the wire.
\* recv(HEADER_LENGTH, MSG_PEEK) and recv(HEADER_LENGTH) return what has
\* arrived, n bytes, at most HEADER_LENGTH; int() of them is the length.  A
\* ValueError is logged and the loop goes round; with length 0 the inner
\* while does not run and message is b''.
R_Header(n) ==
    /\ lstate[1] = "listening"
    /\ conn[1] = "open"
    /\ rx.pc = "recv"
    /\ n \in 1 .. HEADER_LENGTH
    /\ n <= Len(wire)
    /\ wire' = SubSeq(wire, n + 1, Len(wire))
    /\ LET length == ParseInt(SubSeq(wire, 1, n))
       IN  IF length = -1
           THEN UNCHANGED << rx, universalRequestQueue, lstate >>
           ELSE IF length = 0
           THEN /\ Handle(1, Tokens(<<>>))
                /\ UNCHANGED rx
           ELSE /\ rx' = [pc |-> "body", length |-> length, chunks |-> <<>>]
                /\ UNCHANGED << universalRequestQueue, lstate >>
    /\ UNCHANGED << mainVars, serverDisconnectionEvent, serverSocket, clients,
                    clientListLock, accVars, procVars, handlerId, conn, nConn,
                    nAcc, users, sentFrames, editVars >>

\* while bytesReceived < length: message = recv(length - bytesReceived);
\* with the last chunk message = b''.join(chunks) is handled
R_Body(n) ==
    /\ lstate[1] = "listening"
    /\ conn[1] = "open"
    /\ rx.pc = "body"
    /\ n \in 1 .. (rx.length - Len(rx.chunks))
    /\ n <= Len(wire)
    /\ wire' = SubSeq(wire, n + 1, Len(wire))
    /\ LET message == rx.chunks \o SubSeq(wire, 1, n)
       IN  IF Len(message) < rx.length
           THEN /\ rx' = [rx EXCEPT !.chunks = message]
                /\ UNCHANGED << universalRequestQueue, lstate >>
           ELSE /\ Handle(1, Tokens(message))
                /\ rx' = AtRecv
    /\ UNCHANGED << mainVars, serverDisconnectionEvent, serverSocket, clients,
                    clientListLock, accVars, procVars, handlerId, conn, nConn,
                    nAcc, users, sentFrames, editVars >>

\* ------------------------------------------ ServerProgram.ProcessRequestQueue
\* a queue whose get() hands out the newest entry instead of the oldest
P_Poll_Lifo ==
    /\ procPc = "poll"
    /\ IF universalRequestQueue # <<>>
       THEN /\ procCur' = universalRequestQueue[Len(universalRequestQueue)]
            /\ universalRequestQueue' =
                  SubSeq(universalRequestQueue, 1,
                         Len(universalRequestQueue) - 1)
            /\ procPc' = "process"
       ELSE /\ procPc' = "check_event"
            /\ UNCHANGED << procCur, universalRequestQueue >>
    /\ UNCHANGED << mainVars, serverDisconnectionEvent, serverSocket, clients,
                    clientListLock, accVars, procReply, procTarget, lstate,
                    handlerId, netVars, nAcc, users >>

\* while not self.universalRequestQueue.empty(): id, request = ....get()
P_Poll ==
    /\ procPc = "poll"
    /\ IF universalRequestQueue # <<>>
       THEN /\ procCur' = Head(universalRequestQueue)
            /\ universalRequestQueue' = Tail(universalRequestQueue)
            /\ procPc' = "process"
       ELSE /\ procPc' = "check_event"
            /\ UNCHANGED << procCur, universalRequestQueue >>
    /\ UNCHANGED << mainVars, serverDisconnectionEvent, serverSocket, clients,
                    clientListLock, accVars, procReply, procTarget, lstate,
                    handlerId, netVars, nAcc, users >>

\* if self.serverDisconnectionEvent.is_set(): break
P_CheckEvent ==
    /\ procPc = "check_event"
    /\ procPc' = IF serverDisconnectionEvent THEN "done" ELSE "poll"
    /\ UNCHANGED << mainVars, serverDisconnectionEvent, serverSocket, clients,
                    clientListLock, universalRequestQueue, accVars, procCur,
                    procReply, procTarget, lstate, handlerId, netVars,
                    nAcc, users >>

\* reply = self.ProcessRequest(id, request), all but the DISCONNECT branch;
\* an uncaught exception ends the Processor thread
P_Process ==
    /\ procPc = "process"
    /\ procCur.request # DISCONNECT
    /\ LET r == ProcessRequest(users, procCur.request)
       IN  /\ procPc' = IF r.kind = "crash" THEN "crashed" ELSE "alive"
           /\ procReply' = r.reply
           /\ users' = IF r.kind = "crash" THEN users
                       ELSE UsersAfter(users, procCur.request)
    /\ UNCHANGED << mainVars, serverDisconnectionEvent, serverSocket, clients,
                    clientListLock, universalRequestQueue, accVars, procCur,
                    procTarget, lstate, handlerId, netVars, nAcc >>

\* ProcessRequest, request == b'DISCONNECT': with self.clientListLock: and
\* the evaluation of self.clients[id][0].join, which raises AttributeError
\* on an empty slot (the with block then releases the lock)
P_Acquire ==
    /\ procPc = "process"
    /\ procCur.request = DISCONNECT
    /\ clientListLock = "free"
    /\ IF clients[procCur.id] = None
       THEN /\ procPc' = "crashed"
            /\ UNCHANGED << clientListLock, procTarget >>
       ELSE /\ clientListLock' = "processor"
            /\ procTarget' = clients[procCur.id]
            /\ procPc' = "join"
    /\ UNCHANGED << mainVars, serverDisconnectionEvent, serverSocket, clients,
                    universalRequestQueue, accVars, procCur, procReply,
                    lstate, handlerId, netVars, nAcc, users >>

\* self.clients[id][0].join() returns; the with block ends; ProcessRequest
\* returns status, b'INVALID'
P_Join ==
    /\ procPc = "join"
    /\ lstate[procTarget] = "done"
    /\ clientListLock' = "free"
    /\ procReply' = "INVALID"
    /\ procTarget' = None
    /\ procPc' = "alive"
    /\ UNCHANGED << mainVars, serverDisconnectionEvent, serverSocket, clients,
                    universalRequestQueue, accVars, procCur, lstate,
                    handlerId, netVars, nAcc, users >>

\* if self.clients[id][0].is_alive(): ... else: self.clients[id] = (None, None)
\* (None.is_alive raises AttributeError on an empty slot)
P_CheckAlive ==
    /\ procPc = "alive"
    /\ IF clients[procCur.id] = None
       THEN /\ procPc' = "crashed"
            /\ UNCHANGED << clients, procTarget, procCur, procReply >>
       ELSE IF Alive(clients[procCur.id])
       THEN /\ procTarget' = clients[procCur.id]
            /\ procPc' = "send_hdr"
            /\ UNCHANGED << clients, procCur, procReply >>
       ELSE /\ clients' = [clients EXCEPT ![procCur.id] = None]
            /\ procPc' = "poll"
            /\ procCur' = NoEntry
            /\ procReply' = ""
            /\ UNCHANGED procTarget
    /\ UNCHANGED << mainVars, serverDisconnectionEvent, serverSocket,
                    clientListLock, universalRequestQueue, accVars, lstate,
                    handlerId, netVars, nAcc, users >>

\* a SendMessage without its except clauses: the exception of socket.send
\* ends the calling thread
P_SendHeader_Raises ==
    /\ procPc = "send_hdr"
    /\ \E ok \in SendOutcomes(procTarget) :
          procPc' = IF ok THEN "send_pay" ELSE "crashed"
    /\ UNCHANGED << mainVars, serverDisconnectionEvent, serverSocket, clients,
                    clientListLock, universalRequestQueue, accVars, procCur,
                    procReply, procTarget, lstate, handlerId, netVars, nAcc,
                    users >>

\* self.clients[id][1].SendMessage(reply): self.socket.send(header); an
\* exception makes SendMessage return False
P_SendHeader ==
    /\ procPc = "send_hdr"
    /\ \E ok \in SendOutcomes(procTarget) :
          IF ok
          THEN /\ procPc' = "send_pay"
               /\ UNCHANGED << procCur, procReply, procTarget >>
          ELSE /\ procPc' = "poll"
               /\ procCur' = NoEntry
               /\ procReply' = ""
               /\ procTarget' = None
    /\ UNCHANGED << mainVars, serverDisconnectionEvent, serverSocket, clients,
                    clientListLock, universalRequestQueue, accVars, lstate,
                    handlerId, netVars, nAcc, users >>

\* self.clients[id][1].SendMessage(reply): self.socket.send(message);
\* SendMessage returns True or False and the Processor ignores which
P_SendPayload ==
    /\ procPc = "send_pay"
    /\ procPc' = "poll"
    /\ procCur' = NoEntry
    /\ procReply' = ""
    /\ procTarget' = None
    /\ UNCHANGED << mainVars, serverDisconnectionEvent, serverSocket, clients,
                    clientListLock, universalRequestQueue, accVars, lstate,
                    handlerId, netVars, nAcc, users >>

\* ------------------------------------------------------------ the clients
\* a client connects to the listening socket and waits in its backlog;
\* beyond MaxSessions connections, one more arrives only once the Acceptor
\* thread has ended (nothing will accept it)
C_Connect ==
    /\ serverSocket = "listening"
    /\ \/ nConn < MaxSessions
       \/ nConn = MaxSessions /\ accPc = "done"
    /\ nConn' = nConn + 1
    /\ UNCHANGED << mainVars, serverDisconnectionEvent, serverSocket, clients,
                    clientListLock, universalRequestQueue, accVars, procVars,
                    lstate, handlerId, conn, nAcc, users, frameVars,
                    editVars >>

\* ------------------------------------------------------------------ Next
Main == Start \/ End_SetEvent \/ End_Close \/ End_Scan \/ End_SendHeader
        \/ End_SendPayload \/ End_Join \/ End_JoinAcceptor
        \/ End_JoinProcessor

Acceptor == Acc_Bind \/ Acc_Loop \/ Acc_Accept \/ Acc_Acquire \/ Acc_Scan
            \/ Acc_Insert

Processor == P_Poll \/ P_CheckEvent \/ P_Process \/ P_Acquire \/ P_Join
             \/ P_CheckAlive \/ P_SendHeader \/ P_SendPayload

Listener(s) == (\E m \in Requests : L_Recv(s, m))
               \/ (\E how \in Failures : L_Fail(s, how))
               \/ L_Exit(s)

Next ==
    \/ Main
    \/ Acceptor
    \/ Processor
    \/ \E s \in Sessions : Listener(s)
    \/ C_Connect

Spec == Init /\ [][Next]_vars


\* ------------------------------------------------- one session, in detail
\* The server with one client accepted: Start has run, the Acceptor has
\* stored session 1 in slot 0 and waits in accept() again.
OneSession ==
    /\ endIdx = 0
    /\ endConn = None
    /\ serverSocket = "listening"
    /\ clients = [i \in Slots |-> IF i = 0 THEN 1 ELSE None]
    /\ clientListLock = "free"
    /\ universalRequestQueue = <<>>
    /\ accPc = "accept" /\ accIdx = 0 /\ accConn = None
    /\ procReply = ""
    /\ procTarget = None
    /\ lstate = [s \in Sessions |-> IF s = 1 THEN "listening" ELSE "unborn"]
    /\ handlerId = [s \in Sessions |-> 0]
    /\ conn = [s \in Sessions |-> "open"]
    /\ nConn = 1 /\ nAcc = 1
    /\ adminPc = "idle"
    /\ weatherDatabaseLock = "free"

\* payloads of up to MaxTokens words
Seqs(S, n) == UNION { [1 .. k -> S] : k \in 1 .. n }
Payloads == Seqs(Words, MaxTokens)

\* stores the model reaches: the initial one, and after REGISTER bob pw
Stores == { InitialUsers, InitialUsers \cup { <<"bob", <<"pw">>>> } }

\* The Processor has taken a request of session 1 from the queue and is
\* about to call ProcessRequest.
RequestInit ==
    /\ OneSession
    /\ mainPc = "running"
    /\ serverDisconnectionEvent = FALSE
    /\ procPc = "process"
    /\ \E request \in Payloads : procCur = Entry(1, request)
    /\ users \in Stores
    /\ sentFrames = <<>> /\ wire = <<>> /\ rx = AtRecv

RequestNext == P_Process \/ P_CheckAlive \/ P_SendHeader \/ P_SendPayload

RequestSpec == RequestInit /\ [][RequestNext]_vars

\* The client of session 1 has sent up to MaxFrames frames, before or after
\* End set the event, and the listener reads them recv by recv.
FrameInit ==
    /\ OneSession
    /\ serverDisconnectionEvent \in BOOLEAN
    /\ mainPc = IF serverDisconnectionEvent THEN "end_close" ELSE "running"
    /\ procPc = "poll"
    /\ procCur = NoEntry
    /\ users = InitialUsers
    /\ sentFrames \in Seqs(FramePayloads, MaxFrames)
    /\ wire = Stream(sentFrames)
    /\ rx = AtRecv

FrameNext == \E n \in 1 .. HEADER_LENGTH : R_Header(n) \/ R_Body(n)

FrameSpec == FrameInit /\ [][FrameNext]_vars

\* ------------------------------------------------------------- edit mode
\* ServerProgram.EnterEditMode: self.adminWeatherHandler =
\* WeatherDataModifier(...); the caller is a thread of its own (the
\* administrator's), also after an earlier call has raised
EnterEditMode ==
    /\ adminPc \in {"idle", "raised"}
    /\ adminPc' = "edit"
    /\ UNCHANGED << mainVars, serverDisconnectionEvent, serverSocket, clients,
                    clientListLock, universalRequestQueue, accVars, procVars,
                    lstate, handlerId, conn, nConn, nAcc, users, frameVars,
                    weatherDatabaseLock >>

\* ServerProgram.ExitEditModeAndReload(save): self.adminWeatherHandler =
\* None; if save: self.adminWeatherHandler.SaveDatabase(), which raises
\* AttributeError on None, so that the call ends before the reload
Exit_Clear(save) ==
    /\ adminPc = "edit"
    /\ adminPc' = IF save THEN "raised" ELSE "acquire"
    /\ UNCHANGED << mainVars, serverDisconnectionEvent, serverSocket, clients,
                    clientListLock, universalRequestQueue, accVars, procVars,
                    lstate, handlerId, conn, nConn, nAcc, users, frameVars,
                    weatherDatabaseLock >>

\* a reload that does not take the lock
Exit_Acquire_NoLock ==
    /\ adminPc = "acquire"
    /\ adminPc' = "reload"
    /\ UNCHANGED << mainVars, serverDisconnectionEvent, serverSocket, clients,
                    clientListLock, universalRequestQueue, accVars, procVars,
                    lstate, handlerId, conn, nConn, nAcc, users, frameVars,
                    weatherDatabaseLock >>

\* with self.weatherDatabaseLock:
Exit_Acquire ==
    /\ adminPc = "acquire"
    /\ weatherDatabaseLock = "free"
    /\ weatherDatabaseLock' = "admin"
    /\ adminPc' = "reload"
    /\ UNCHANGED << mainVars, serverDisconnectionEvent, serverSocket, clients,
                    clientListLock, universalRequestQueue, accVars, procVars,
                    lstate, handlerId, conn, nConn, nAcc, users, frameVars >>

\* self.weatherDataHandler.LoadDatabase() returns; the with block ends
Exit_Reload ==
    /\ adminPc = "reload"
    /\ weatherDatabaseLock' = "free"
    /\ adminPc' = "idle"
    /\ UNCHANGED << mainVars, serverDisconnectionEvent, serverSocket, clients,
                    clientListLock, universalRequestQueue, accVars, procVars,
                    lstate, handlerId, conn, nConn, nAcc, users, frameVars >>

Admin == EnterEditMode \/ (\E save \in BOOLEAN : Exit_Clear(save))
         \/ Exit_Acquire \/ Exit_Reload

\* The administrator edits and reloads while the Processor handles a
\* request of session 1.
EditNext == RequestNext \/ Admin

EditSpec == RequestInit /\ [][EditNext]_vars

\* ------------------------------------------------------------- fairness
\* The threads of the server are scheduled fairly; the call of End waits
\* for the operator and the clients are free.
EndSteps == End_Close \/ End_Scan \/ End_SendHeader \/ End_SendPayload
            \/ End_Join \/ End_JoinAcceptor \/ End_JoinProcessor

FairSpec ==
    /\ Spec
    /\ WF_vars(Start)
    /\ WF_vars(EndSteps)
    /\ WF_vars(Acceptor)
    /\ WF_vars(Processor)
    /\ \A s \in Sessions : WF_vars(L_Exit(s))

\* what a client does, once the server has asked for disconnection, to end
\* its session: it confirms, asks to disconnect, or its connection ends
ClientFinal(s) ==
    /\ serverDisconnectionEvent
    /\ \/ L_Recv(s, CONFIRM_DISCONNECTION)
       \/ L_Recv(s, DISCONNECT)
       \/ \E how \in Failures : L_Fail(s, how)

FairSpecClients ==
    /\ FairSpec
    /\ \A s \in Sessions : WF_vars(ClientFinal(s))

\* ------------------------------------------------------------ properties
Started(s) == lstate[s] # "unborn"
Terminated(s) == lstate[s] = "done"
Pending == nConn > nAcc
QueuedDisconnect(s) ==
    \E k \in 1 .. Len(universalRequestQueue) :
        universalRequestQueue[k] = Entry(s, DISCONNECT)

\* C1: when End() returns, the Acceptor, the Processor and every listener
\* ever started have terminated.
C1_ShutdownTasks ==
    mainPc = "returned" =>
        /\ accPc = "done"
        /\ procPc \in {"done", "crashed"}
        /\ \A s \in Sessions : Started(s) => Terminated(s)

\* C2: when End() returns, every slot of the registry is (None, None).
C2_ShutdownRegistry ==
    mainPc = "returned" => \A i \in Slots : clients[i] = None

\* C3: once End() is called, and every client confirms, disconnects or
\* loses its connection, End() eventually returns.
C3_EndReturns ==
    (mainPc = "end_close") ~> (mainPc = "returned")

\* C4: a read that sees the connection end (end of stream, close inside a
\* frame, reset, any other error) queues exactly one (id, DISCONNECT) and
\* ends the listener.
C4_FailureIsDisconnect ==
    [][ \A s \in Sessions :
          (conn[s] = "open" /\ conn'[s] \in Failures) =>
              /\ universalRequestQueue' =
                    Append(universalRequestQueue, Entry(s, DISCONNECT))
              /\ lstate'[s] \in {"exiting", "done"} ]_vars

\* C5: a DISCONNECT of the client is queued once and ends the listener, no
\* reply is sent for it, and the session's slot eventually becomes free.
C5_ClientDisconnect ==
    /\ [][ \A s \in Sessions :
             (lstate[s] = "listening" /\ lstate'[s] = "exiting"
                 /\ ~(serverDisconnectionEvent
                      /\ universalRequestQueue' = universalRequestQueue)) =>
                universalRequestQueue' =
                    Append(universalRequestQueue, Entry(s, DISCONNECT)) ]_vars
    /\ [](procPc \in {"send_hdr", "send_pay"} =>
             procCur.request # DISCONNECT)
    /\ \A s \in Sessions :
          (QueuedDisconnect(s) /\ conn[s] = "open")
              ~> (clients[handlerId[s]] # s /\ accConn # s)

\* C6: while shutdown has not been requested, a connection that waits while
\* a slot is free is eventually accepted.
C6_SlotReuse ==
    \A k \in 0 .. MaxSessions :
        (nAcc = k /\ Pending /\ FreeSlots # {} /\ ~serverDisconnectionEvent)
            ~> (nAcc > k \/ serverDisconnectionEvent)

\* C7: a connection that arrives while every slot is occupied is accepted
\* and closed, never left pending: while the server socket listens, a
\* connection waits on a full registry only if the Acceptor is there to
\* accept it.
C7_CapacityExceeded ==
    (serverSocket = "listening" /\ Pending /\ FreeSlots = {}) =>
        accPc # "done"

\* C8: at most maxClients listeners are alive, each live session is in the
\* slot whose index is its id, and no two live sessions share an id.
C8_RegistryInvariant ==
    /\ Cardinality({s \in Sessions : Alive(s)}) <= maxClients
    /\ \A s \in Sessions : Alive(s) => clients[handlerId[s]] = s
    /\ \A s, t \in Sessions :
          (Alive(s) /\ Alive(t) /\ s # t) => handlerId[s] # handlerId[t]

\* C9: every insert into and every clear of a registry slot is made by a
\* thread that holds clientListLock.
C9_MutationUnderLock ==
    [][ \A i \in Slots :
          /\ (clients[i] = None /\ clients'[i] # None) =>
                clientListLock = "acceptor"
          /\ (clients[i] # None /\ clients'[i] = None) =>
                clientListLock = "processor" ]_vars

\* C10: no thread waits for another thread to terminate, or on the
\* network, while it holds clientListLock.
C10_LockHeldBriefly ==
    /\ clientListLock = "processor" =>
          ~(procPc = "join" /\ Alive(procTarget))
    /\ clientListLock = "acceptor" => accPc \in {"scan", "insert"}

\* C11: the Processor takes queue entries in the order in which they were
\* queued: every entry is appended at the tail, the entry the Processor
\* takes is the head, and it holds one entry at a time, so the requests of
\* one session are processed, and their replies sent, in arrival order.
C11_FifoProcessing ==
    [][ /\ universalRequestQueue' # universalRequestQueue =>
              \/ /\ universalRequestQueue # <<>>
                 /\ universalRequestQueue' = Tail(universalRequestQueue)
                 /\ procCur' = Head(universalRequestQueue)
                 /\ procPc = "poll" /\ procPc' = "process"
              \/ \E s \in Sessions : \E m \in Requests :
                    universalRequestQueue' =
                        Append(universalRequestQueue, Entry(s, m))
        /\ procCur' # procCur =>
              \/ procCur' = NoEntry
              \/ /\ procCur = NoEntry
                 /\ universalRequestQueue # <<>>
                 /\ procCur' = Head(universalRequestQueue) ]_vars

\* the Processor holds a request of a session while a later, different
\* request of the same session waits in the queue behind the request of
\* another session
C11_Witness ==
    /\ procPc = "process"
    /\ Len(universalRequestQueue) = 2
    /\ procCur.sid = universalRequestQueue[2].sid
    /\ procCur.sid # universalRequestQueue[1].sid
    /\ procCur.request # universalRequestQueue[2].request

\* C12: the reply to a queue entry is sent only to the session that queued
\* it: whenever the Processor is sending a reply, the session it sends to is
\* the one whose entry it holds, never another session that now has the
\* same slot index.
C12_ReplyRouting ==
    procPc \in {"send_hdr", "send_pay"} => procTarget = procCur.sid

\* C13: the disconnection or failure of a session S touches nobody else:
\* the Processor waits for the end of no listener but that of the session
\* whose entry it holds, the entry of a session whose listener has ended
\* never makes it end abnormally in the DISCONNECT branch or in the
\* liveness check, and it clears no slot that holds a session other than
\* the one whose entry it holds.
C13_FailureIsolation ==
    /\ [](procPc = "join" => procTarget = procCur.sid)
    /\ [][ (procPc \in {"process", "alive"} /\ procPc' = "crashed"
              /\ lstate[procCur.sid] # "listening") =>
                (procPc = "process" /\ procCur.request # DISCONNECT) ]_vars
    /\ [][ \A i \in Slots :
              (clients[i] # None /\ clients'[i] = None) =>
                  clients[i] = procCur.sid ]_vars

\* C14: a frame CONFIRM DISCONNECTION ends the listener, with nothing
\* queued, exactly when the event is set as the frame is classified; with
\* the event unset it is queued like any request and the listener goes on;
\* every frame other than DISCONNECT and an accepted confirmation is queued
\* exactly once and the listener goes on listening.
C14_ConfirmationToken ==
    [][ LET consumed == SubSeq(wire, 1, Len(wire) - Len(wire'))
            read == \/ rx.pc = "recv" /\ ParseInt(consumed) = 0
                    \/ rx.pc = "body"
                       /\ Len(rx.chunks) + Len(consumed) = rx.length
            m == Tokens(IF rx.pc = "recv" THEN <<>>
                        ELSE rx.chunks \o consumed)
        IN  (wire' # wire /\ read) =>
               IF m = CONFIRM_DISCONNECTION /\ serverDisconnectionEvent
               THEN /\ lstate'[1] = "exiting"
                    /\ universalRequestQueue' = universalRequestQueue
               ELSE IF m = DISCONNECT
               THEN lstate'[1] = "exiting"
               ELSE /\ universalRequestQueue' =
                          Append(universalRequestQueue, Entry(1, m))
                    /\ lstate'[1] = "listening" ]_vars

\* C15: the Processor thread ends only where the event is set and it has
\* just seen the queue empty, never while the event is unset; and once the
\* event is set and the queue stays empty it eventually ends.
C15_ProcessorTermination ==
    /\ [][ (procPc \notin {"done", "crashed"}
              /\ procPc' \in {"done", "crashed"}) =>
                (procPc = "check_event" /\ serverDisconnectionEvent) ]_vars
    /\ (<>[](serverDisconnectionEvent /\ universalRequestQueue = <<>>))
          => <>(procPc \in {"done", "crashed"})

\* C16: a request whose first word is WEATHER, bare WEATHER included, from
\* a session that has not logged in is answered exactly FAILED NOT LOGGED
\* IN (no session of the model is ever logged in: nothing sets logged_in).
C16_AuthenticationGate ==
    [][ (procPc = "process" /\ Head(procCur.request) = "WEATHER") =>
            (procPc' = "alive" /\ procReply' = "FAILED NOT LOGGED IN") ]_vars

\* C17: LOGIN username password is answered SUCCEEDED when the store says
\* VALID, FAILED USERNAME NOT FOUND when it says NO_USERNAME and FAILED
\* WRONG PASSWORD when it says WRONG_PASSWORD, and in all three cases the
\* Processor goes on.
C17_LoginFlow ==
    [][ (procPc = "process" /\ Len(procCur.request) >= 3
           /\ Head(procCur.request) = "LOGIN") =>
            LET loginstatus == Verify(users, procCur.request[2],
                                      Tail(Tail(procCur.request)))
            IN  /\ procPc' = "alive"
                /\ procReply' =
                      IF loginstatus = "VALID" THEN "SUCCEEDED"
                      ELSE IF loginstatus = "NO_USERNAME"
                           THEN "FAILED USERNAME NOT FOUND"
                      ELSE "FAILED WRONG PASSWORD" ]_vars

\* C18: a request that lacks a required parameter (a single word, or LOGIN
\* or REGISTER with a username and no password) is answered exactly
\* INVALID, the credential store is not called, and the connection stays
\* open with its listener listening.
Malformed(request) ==
    \/ Len(request) = 1
    \/ /\ Len(request) = 2
       /\ request[1] \in {"LOGIN", "REGISTER"}
       /\ request[2] # ""

C18_MalformedCommands ==
    [][ (procPc = "process" /\ Malformed(procCur.request)) =>
            /\ procPc' = "alive"
            /\ procReply' = "INVALID"
            /\ ~CallsStore(procCur.request)
            /\ users' = users
            /\ conn'[procCur.sid] = "open"
            /\ lstate'[procCur.sid] = "listening" ]_vars

RECURSIVE Delivered(_)
Delivered(frames) ==
    IF frames = <<>> THEN <<>>
    ELSE IF serverDisconnectionEvent /\ Head(frames) = CONFIRM_DISCONNECTION
    THEN <<>>
    ELSE IF Head(frames) = DISCONNECT THEN << Entry(1, DISCONNECT) >>
    ELSE << Entry(1, Head(frames)) >> \o Delivered(Tail(frames))

IsPrefix(p, q) == Len(p) <= Len(q) /\ p = SubSeq(q, 1, Len(p))

\* C20: whatever the sizes of the chunks recv returns, a header chunk
\* shorter than HEADER_LENGTH included, every payload of length >= 0 that
\* SendMessage's framing put on the wire is queued whole and exactly once:
\* nothing but the payloads sent is ever queued, in their order, and once
\* the wire is read to its end, or the listener has left its loop, all of
\* them are.
C20_FrameRoundTrip ==
    /\ IsPrefix(universalRequestQueue, Delivered(sentFrames))
    /\ ((wire = <<>> /\ rx = AtRecv) \/ lstate[1] # "listening") =>
          universalRequestQueue = Delivered(sentFrames)

\* C23: at every step at which the Processor dereferences the registry slot
\* of the entry it holds (the join of the DISCONNECT branch, the logged-in
\* and SetLoggedIn accesses of ProcessRequest, the is_alive check) the slot
\* is occupied, also for the later entries of a session whose listener
\* ended before its first entry was processed.
C23_SlotOccupied ==
    [][ ( \/ procPc = "alive" /\ procPc' # "alive"
          \/ procPc = "process" /\ procPc' # "process"
             /\ ( \/ procCur.request = DISCONNECT
                  \/ ProcessRequest(users, procCur.request) = Crash ) ) =>
            clients[procCur.id] # None ]_vars

\* C24: the Processor and the thread in End are never both between the
\* header write and the payload write of SendMessage on the socket of the
\* same session.
C24_NoInterleaving ==
    ~( procPc = "send_pay" /\ mainPc = "end_send_pay"
       /\ procTarget = endConn )

\* C25: no request is lost: once the Processor thread has ended no listener
\* puts an entry on the queue, the queue is empty when End has returned,
\* and while the queue holds an entry the Processor eventually takes one.
C25_NoRequestLost ==
    /\ [][ (procPc \in {"done", "crashed"}) =>
              (Len(universalRequestQueue') <= Len(universalRequestQueue))
       ]_vars
    /\ [](mainPc = "returned" => universalRequestQueue = <<>>)
    /\ (universalRequestQueue # <<>>) ~> (procPc = "process")

\* No statement of the server closes the socket of a session:
\* ListenForRequests leaves its loop without a close and
\* MessagingHandler.__del__ is pass.  The socket is closed only when the
\* interpreter frees the handler, that is once the listener thread has
\* ended and no registry slot and no local variable of the Acceptor, of End
\* or of the Processor holds the (thread, handler) pair.
Referenced(s) ==
    \/ \E i \in Slots : clients[i] = s
    \/ accConn = s
    \/ endConn = s
    \/ procTarget = s

SocketClosed(s) == lstate[s] = "done" /\ ~Referenced(s)

\* C21: when the listener of a session has terminated, by DISCONNECT, by a
\* confirmed shutdown or by a connection error, the socket of the session
\* is closed.
C21_ConnectionClosure ==
    \A s \in Sessions : (lstate[s] = "done") ~> SocketClosed(s)

====
